---- MODULE Spec2Model ----
(***************************************************************************)
(* A model of WeatherMaker (weather_maker.py, database_init.py):           *)
(*   - WeatherMaker.save_forecast, the day-by-day fetch and parse loop,    *)
(*     with parse_temperature, parse_weather_condition and parse_wind;     *)
(*   - DatabaseUpdater.store_forecast and get_forecast over the Forecast   *)
(*     table;                                                              *)
(*   - the driver that invokes the commands one after the other.           *)
(* Text is a sequence of one-character strings, so that "keyword in text"  *)
(* and slicing are computed as Python computes them.  A calendar date is   *)
(* its day number, counted from the first day of the modelled calendar.    *)
(***************************************************************************)
EXTENDS Integers, Sequences, FiniteSets

\* ------------------------------------------------------------------ bounds

\* Days of the modelled calendar: 1 .. MaxDate.
MaxDate == 3

\* store_forecast commands the driver issues in one behaviour.
MaxCalls == 3

\* Fragments concatenated into a raw summary text (normalizer inputs).
MaxFrags == 2

Dates == 1..MaxDate

\* -------------------------------------------------------------------- text

Cloudy == <<"C","l","o","u","d","y">>
Rainy  == <<"R","a","i","n","y">>
Snowy  == <<"S","n","o","w","y">>
Sunny  == <<"S","u","n","n","y">>

WEATHER_TYPES == <<Cloudy, Rainy, Snowy, Sunny>>

\* The dict of line 14: Python iterates its keys in insertion order, so it
\* is the sequence of its items.
WEATHER_CONDITION_DICT ==
  << [key   |-> << <<"C","l","o","u","d">>, <<"c","l","o","u","d">>,
                   <<"o","v","e","r","c","a","s","t">>,
                   <<"O","v","e","r","c","a","s","t">>,
                   <<"f","o","g","g","y">>, <<"F","o","g","g","y">> >>,
      value |-> WEATHER_TYPES[1]],
     [key   |-> << <<"R","a","i","n">>, <<"r","a","i","n">>,
                   <<"D","r","i","z","z","l","e">>,
                   <<"d","r","i","z","z","l","e">> >>,
      value |-> WEATHER_TYPES[2]],
     [key   |-> << <<"S","n","o","w">>, <<"s","n","o","w">> >>,
      value |-> WEATHER_TYPES[3]],
     [key   |-> << <<"S","u","n">>, <<"s","u","n">>,
                   <<"C","l","e","a","r">>, <<"c","l","e","a","r">> >>,
      value |-> WEATHER_TYPES[4]] >>

\* Python's `sub in text` for strings.
IsSubstring(sub, text) ==
  \E i \in 0..(Len(text) - Len(sub)) : SubSeq(text, i + 1, i + Len(sub)) = sub

\* A lookup that found nothing (BeautifulSoup's None) or found a text.
NotFound == [found |-> FALSE]
Found(t) == [found |-> TRUE, text |-> t]

\* The outcome of a parse method: its return value, or the exception raised.
Returns(v) == [error |-> "none", value |-> v]
Raises(e)  == [error |-> e]

\* --------------------------------------------------------------- normalizer

\* The inner loop of parse_weather_condition: does any keyword of the tuple,
\* from position j on, occur in the text?
RECURSIVE ScanTuple(_, _, _)
ScanTuple(condition_tuple, text, j) ==
  IF j > Len(condition_tuple) THEN FALSE
  ELSE IF IsSubstring(condition_tuple[j], text) THEN TRUE
       ELSE ScanTuple(condition_tuple, text, j + 1)

\* The outer loop, from item g of the dict on; its else branch returns the
\* text itself.
RECURSIVE ScanDict(_, _, _)
ScanDict(dict, text, g) ==
  IF g > Len(dict) THEN text
  ELSE IF ScanTuple(dict[g].key, text, 1) THEN dict[g].value
       ELSE ScanDict(dict, text, g + 1)

\* A plausible bug: the groups are scanned last to first.
RECURSIVE ScanDictReversed(_, _, _)
ScanDictReversed(dict, text, g) ==
  IF g > Len(dict) THEN text
  ELSE LET h == Len(dict) + 1 - g
       IN  IF ScanTuple(dict[h].key, text, 1) THEN dict[h].value
           ELSE ScanDictReversed(dict, text, g + 1)

NormalizeReversed(text) == ScanDictReversed(WEATHER_CONDITION_DICT, text, 1)

\* The loops of parse_weather_condition over a summary text.
Normalize(text) == ScanDict(WEATHER_CONDITION_DICT, text, 1)

\* parse_weather_condition: soup.find('p', id='summary') is None when the
\* page has no summary, and None.text raises AttributeError.
parse_weather_condition(soup) ==
  IF ~soup.summary.found THEN Raises("AttributeError")
  ELSE Returns(Normalize(soup.summary.text))

\* ---------------------------------------------------------------- extractor

DegC == <<"d","e","g"," ","C">>

\* A plausible bug: a missing temperature region yields a default value.
parse_temperature_default(soup) ==
  IF ~soup.temperature.found THEN Returns(DegC)
  ELSE LET temperature == soup.temperature.text
       IN  Returns(SubSeq(temperature, 1, Len(temperature) - 1) \o DegC)

\* parse_temperature: either find() on the page yields None when the region
\* is missing and the next attribute access raises AttributeError; otherwise
\* the last character of the text is replaced by 'deg C'.
parse_temperature(soup) ==
  IF ~soup.temperature.found THEN Raises("AttributeError")
  ELSE LET temperature == soup.temperature.text
       IN  Returns(SubSeq(temperature, 1, Len(temperature) - 1) \o DegC)

\* parse_wind: a missing wind region (the div or any of its spans) raises;
\* otherwise force, units and direction are formatted into one text.
parse_wind(soup) ==
  IF ~soup.wind.found THEN Raises("AttributeError")
  ELSE Returns(soup.wind.force \o <<" ">> \o soup.wind.units
               \o <<" "," "," "," ">> \o soup.wind.direction)

\* ------------------------------------------------------------------ the web

\* What requests.get(url) can come back with: an exception, or a page.
ConnectionError == [raised |-> TRUE]
Page(t, s, w) == [raised |-> FALSE,
                  soup |-> [temperature |-> t, summary |-> s, wind |-> w]]

Wind10NW == [found |-> TRUE, force |-> <<"1","0">>,
             units |-> <<"k","m","/","h">>, direction |-> <<"N","W">>]

Temp15 == Found(<<"1","5","o">>)
Temp20 == Found(<<"2","0","o">>)

RainAndCloud == Found(<<"R","a","i","n"," ","c","l","o","u","d">>)
ClearDay     == Found(<<"C","l","e","a","r">>)
Mist         == Found(<<"M","i","s","t">>)

\* Pages with every region; and pages missing regions: all of them (an error
\* page, which requests.get returns without raising), or one.
GoodPages == { Page(Temp15, RainAndCloud, Wind10NW),
               Page(Temp20, Mist, Wind10NW) }

BadPages == { Page(NotFound, NotFound, NotFound),
              Page(NotFound, RainAndCloud, Wind10NW),
              Page(Temp15, NotFound, Wind10NW),
              Page(Temp20, ClearDay, NotFound) }

Responses == {ConnectionError} \cup GoodPages \cup BadPages

\* ---------------------------------------------------------------- collector

\* A dict, and d[k] = v.
EmptyDict == <<>>
DictSet(d, k, v) == [x \in (DOMAIN d) \cup {k} |-> IF x = k THEN v ELSE d[x]]

\* One iteration of save_forecast's loop body (lines 140-147) for the day
\* current_date, given what requests.get returned: the entry as far as it was
\* filled, and the exception that ended the iteration, if any.
ParseDay(current_date, response) ==
  LET e0 == EmptyDict
  IN  IF response.raised THEN [entry |-> e0, error |-> "ConnectionError"]
      ELSE
      LET soup == response.soup
          e1 == DictSet(e0, "Date", current_date)
          t  == parse_temperature(soup)
      IN  IF t.error # "none" THEN [entry |-> e1, error |-> t.error]
          ELSE
          LET e2 == DictSet(e1, "Temperature", t.value)
              c  == parse_weather_condition(soup)
          IN  IF c.error # "none" THEN [entry |-> e2, error |-> c.error]
              ELSE
              LET e3 == DictSet(e2, "Weather condition", c.value)
                  w  == parse_wind(soup)
              IN  IF w.error # "none" THEN [entry |-> e3, error |-> w.error]
                  ELSE [entry |-> DictSet(e3, "Wind", w.value),
                        error |-> "none"]

\* A plausible bug: the loop stops one day early.
LoopCondExclusive(current, end) == current < end

\* A plausible bug: the loop runs until the day after the end is hit.
LoopCondNotEqual(current, end) == current # end + 1

\* The condition of save_forecast's while loop.
LoopCond(current, end) == current <= end

\* -------------------------------------------------------------------- store

\* A row of the Forecast table (database_init.py): the implicit primary key
\* and the four fields.  date is not declared unique.
Row(id, date, defaults) ==
  [id |-> id, date |-> date, temperature |-> defaults.temperature,
   condition |-> defaults.condition, wind |-> defaults.wind]

\* The fields store_forecast passes for one record of the forecast.
Fields(record) ==
  [temperature |-> record["Temperature"],
   condition   |-> record["Weather condition"],
   wind        |-> record["Wind"]]

HasDate(table, date) == \E i \in 1..Len(table) : table[i].date = date

\* A plausible bug: a row is created whether or not the date is stored.
create_always(table, date, defaults) ==
  [table   |-> Append(table, Row(Len(table) + 1, date, defaults)),
   created |-> TRUE]

\* Model.get_or_create(date=..., defaults=...): a row with that date is
\* fetched as it is; only when there is none is one created, from the
\* defaults.
get_or_create(table, date, defaults) ==
  IF HasDate(table, date)
  THEN [table |-> table, created |-> FALSE]
  ELSE [table   |-> Append(table, Row(Len(table) + 1, date, defaults)),
        created |-> TRUE]

\* Model.update({...}).where(Model.date == date).execute()
update_where_date(table, date, fields) ==
  [i \in 1..Len(table) |->
     IF table[i].date = date
     THEN [table[i] EXCEPT !.temperature = fields.temperature,
                           !.condition   = fields.condition,
                           !.wind        = fields.wind]
     ELSE table[i]]

\* The body of store_forecast's loop for one record (lines 188-204): the
\* update runs only on the branch where the row was just created.
upsert(table, record) ==
  LET r == get_or_create(table, record["Date"], Fields(record))
  IN  IF r.created
      THEN update_where_date(r.table, record["Date"], Fields(record))
      ELSE r.table

\* ORDER BY date: insertion of a row into a sequence sorted by date (rows of
\* equal date keep their table order).
RECURSIVE InsertByDate(_, _)
InsertByDate(sorted, row) ==
  IF sorted = <<>> THEN <<row>>
  ELSE IF sorted[Len(sorted)].date <= row.date THEN Append(sorted, row)
       ELSE Append(InsertByDate(SubSeq(sorted, 1, Len(sorted) - 1), row),
                   sorted[Len(sorted)])

RECURSIVE OrderByDate(_)
OrderByDate(rows) ==
  IF rows = <<>> THEN <<>>
  ELSE InsertByDate(OrderByDate(SubSeq(rows, 1, Len(rows) - 1)),
                    rows[Len(rows)])

\* WHERE date BETWEEN start AND end
WhereBetween(table, start, end) ==
  LET Between(row) == start <= row.date /\ row.date <= end
  IN  SelectSeq(table, Between)

\* A plausible bug: the query has no order_by.
select_between(table, start, end) == WhereBetween(table, start, end)

\* The query of get_forecast (lines 168-169).
select_between_ordered(table, start, end) ==
  OrderByDate(WhereBetween(table, start, end))

\* -------------------------------------------------------------------- state

VARIABLES
  pc,                \* where the driver is: idle, collect, write, stored,
                     \* got, crashed
  start_date,        \* the command's start date (0: no command)
  end_date,          \* the command's end date
  current_date,      \* save_forecast's loop variable
  weather_forecast,  \* WeatherMaker.weather_forecast, in insertion order
  outcome,           \* how save_forecast ended: none, returned, or the error
  forecast,          \* what store_forecast received from save_forecast
  idx,               \* position of store_forecast's loop in forecast
  db,                \* the Forecast table, in rowid order
  db_before,         \* the table when the running command began
  fetches,           \* the requests made by the running save_forecast
  selected_forecast, \* what get_forecast returned
  calls,             \* store_forecast commands issued so far
  raw_summary,       \* the summary region handed to parse_weather_condition
  parsed_condition,  \* what parse_weather_condition came back with
  norm_pc            \* the normalizer alone: off, ready, done

vars == <<pc, start_date, end_date, current_date, weather_forecast, outcome,
          forecast, idx, db, db_before, fetches, selected_forecast, calls,
          raw_summary, parsed_condition, norm_pc>>

normVars == <<raw_summary, parsed_condition, norm_pc>>

\* Forecast.create_table() on a new database file; no command running.
Init ==
  /\ pc = "idle"
  /\ start_date = 0
  /\ end_date = 0
  /\ current_date = 0
  /\ weather_forecast = <<>>
  /\ outcome = "none"
  /\ forecast = <<>>
  /\ idx = 0
  /\ db = <<>>
  /\ db_before = <<>>
  /\ fetches = <<>>
  /\ selected_forecast = <<>>
  /\ calls = 0
  /\ raw_summary = NotFound
  /\ parsed_condition = Returns(<<>>)
  /\ norm_pc = "off"

\* store_forecast is called: WeatherMaker(start, end) is constructed and
\* save_forecast entered (lines 186, 103-106, 138).
StoreForecast ==
  /\ pc = "idle"
  /\ calls < MaxCalls
  /\ \E s \in Dates, e \in Dates :
       /\ start_date' = s
       /\ end_date' = e
       /\ current_date' = s
  /\ pc' = "collect"
  /\ weather_forecast' = <<>>
  /\ outcome' = "none"
  /\ forecast' = <<>>
  /\ idx' = 0
  /\ db_before' = db
  /\ fetches' = <<>>
  /\ calls' = calls + 1
  /\ UNCHANGED <<db, selected_forecast, normVars>>

\* A plausible bug: each day is written to the table as soon as it is parsed.
SaveForecastStepEager ==
  /\ pc = "collect"
  /\ LoopCond(current_date, end_date)
  /\ \E response \in Responses :
       LET r == ParseDay(current_date, response)
       IN  /\ fetches' = Append(fetches, [date |-> current_date,
                                          response |-> response])
           /\ weather_forecast' =
                Append(weather_forecast,
                       [key |-> current_date, value |-> r.entry])
           /\ IF r.error = "none"
              THEN /\ current_date' = current_date + 1
                   /\ db' = upsert(db, r.entry)
                   /\ UNCHANGED <<pc, outcome>>
              ELSE /\ pc' = "crashed"
                   /\ outcome' = r.error
                   /\ UNCHANGED <<current_date, db>>
  /\ UNCHANGED <<start_date, end_date, forecast, idx, db_before,
                 selected_forecast, calls, normVars>>

\* One iteration of save_forecast's loop (lines 139-148): the entry is
\* created, the page requested and parsed; an exception ends the command and,
\* uncaught, the program.
SaveForecastStep ==
  /\ pc = "collect"
  /\ LoopCond(current_date, end_date)
  /\ \E response \in Responses :
       LET r == ParseDay(current_date, response)
       IN  /\ fetches' = Append(fetches, [date |-> current_date,
                                          response |-> response])
           /\ weather_forecast' =
                Append(weather_forecast,
                       [key |-> current_date, value |-> r.entry])
           /\ IF r.error = "none"
              THEN /\ current_date' = current_date + 1
                   /\ UNCHANGED <<pc, outcome>>
              ELSE /\ pc' = "crashed"
                   /\ outcome' = r.error
                   /\ UNCHANGED current_date
  /\ UNCHANGED <<start_date, end_date, forecast, idx, db, db_before,
                 selected_forecast, calls, normVars>>

\* save_forecast's loop ends and the dict is returned to store_forecast
\* (lines 139, 149, 186).
SaveForecastReturn ==
  /\ pc = "collect"
  /\ ~LoopCond(current_date, end_date)
  /\ outcome' = "returned"
  /\ forecast' = weather_forecast
  /\ idx' = 1
  /\ pc' = "write"
  /\ UNCHANGED <<start_date, end_date, current_date, weather_forecast, db,
                 db_before, fetches, selected_forecast, calls, normVars>>

\* One iteration of store_forecast's loop over forecast.values()
\* (lines 187-204).
StoreWrite ==
  /\ pc = "write"
  /\ idx <= Len(forecast)
  /\ db' = upsert(db, forecast[idx].value)
  /\ idx' = idx + 1
  /\ UNCHANGED <<pc, start_date, end_date, current_date, weather_forecast,
                 outcome, forecast, db_before, fetches, selected_forecast,
                 calls, normVars>>

\* store_forecast's loop is exhausted and the command returns.
StoreReturn ==
  /\ pc = "write"
  /\ idx > Len(forecast)
  /\ pc' = "stored"
  /\ UNCHANGED <<start_date, end_date, current_date, weather_forecast,
                 outcome, forecast, idx, db, db_before, fetches,
                 selected_forecast, calls, normVars>>

\* get_forecast (lines 166-178): the query is run and its rows returned.
GetForecast ==
  /\ pc = "idle"
  /\ \E s \in Dates, e \in Dates :
       /\ start_date' = s
       /\ end_date' = e
       /\ selected_forecast' = select_between_ordered(db, s, e)
  /\ pc' = "got"
  /\ db_before' = db
  /\ UNCHANGED <<current_date, weather_forecast, outcome, forecast, idx, db,
                 fetches, calls, normVars>>

\* The command returned; the driver drops its result and is ready for the
\* next one (lines 258-261).
NextCommand ==
  /\ pc \in {"stored", "got"}
  /\ pc' = "idle"
  /\ start_date' = 0
  /\ end_date' = 0
  /\ current_date' = 0
  /\ weather_forecast' = <<>>
  /\ outcome' = "none"
  /\ forecast' = <<>>
  /\ idx' = 0
  /\ db_before' = <<>>
  /\ fetches' = <<>>
  /\ selected_forecast' = <<>>
  /\ UNCHANGED <<db, calls, normVars>>

\* The program died of the exception and is run again: the table is on disk
\* and create_table() leaves it as it is (lines 221-223).
Restart ==
  /\ pc = "crashed"
  /\ pc' = "idle"
  /\ start_date' = 0
  /\ end_date' = 0
  /\ current_date' = 0
  /\ weather_forecast' = <<>>
  /\ outcome' = "none"
  /\ forecast' = <<>>
  /\ idx' = 0
  /\ db_before' = <<>>
  /\ fetches' = <<>>
  /\ selected_forecast' = <<>>
  /\ UNCHANGED <<db, calls, normVars>>

Next ==
  \/ StoreForecast
  \/ SaveForecastStep
  \/ SaveForecastReturn
  \/ StoreWrite
  \/ StoreReturn
  \/ GetForecast
  \/ NextCommand
  \/ Restart

Spec == Init /\ [][Next]_vars

\* ------------------------------------------------------ the normalizer alone

Keywords ==
  UNION { { WEATHER_CONDITION_DICT[g].key[j] :
              j \in 1..Len(WEATHER_CONDITION_DICT[g].key) } :
          g \in 1..Len(WEATHER_CONDITION_DICT) }

\* Pieces of summary text: every keyword of the dict, and pieces that are
\* none (some of which join into one).
Fragments ==
  Keywords \cup { <<" ">>, <<"y">>, <<"d">>, <<"C","l","o","u">>,
                  <<"M","i","s","t">>, <<"P","a","r","t","l","y"," ">> }

RECURSIVE Concat(_)
Concat(fs) == IF fs = <<>> THEN <<>> ELSE Head(fs) \o Concat(Tail(fs))

Texts == { Concat(fs) : fs \in UNION { [1..n -> Fragments] : n \in 0..MaxFrags } }

Summaries == {NotFound} \cup { Found(t) : t \in Texts }

\* A page's summary region, about to be parsed.
NormInit ==
  /\ pc = "idle"
  /\ start_date = 0
  /\ end_date = 0
  /\ current_date = 0
  /\ weather_forecast = <<>>
  /\ outcome = "none"
  /\ forecast = <<>>
  /\ idx = 0
  /\ db = <<>>
  /\ db_before = <<>>
  /\ fetches = <<>>
  /\ selected_forecast = <<>>
  /\ calls = 0
  /\ raw_summary \in Summaries
  /\ parsed_condition = Returns(<<>>)
  /\ norm_pc = "ready"

mainVars == <<pc, start_date, end_date, current_date, weather_forecast,
              outcome, forecast, idx, db, db_before, fetches,
              selected_forecast, calls>>

\* parse_weather_condition is called on the page (line 146).
ParseWeatherCondition ==
  /\ norm_pc = "ready"
  /\ parsed_condition' = parse_weather_condition([summary |-> raw_summary])
  /\ norm_pc' = "done"
  /\ UNCHANGED <<raw_summary, mainVars>>

NormNext == ParseWeatherCondition

SpecNormalizer == NormInit /\ [][NormNext]_vars

\* ------------------------------------------------------------------- claims

HasKeyword(g, text) ==
  \E j \in 1..Len(WEATHER_CONDITION_DICT[g].key) :
    IsSubstring(WEATHER_CONDITION_DICT[g].key[j], text)

Category(g) ==
  CASE g = 1 -> Cloudy [] g = 2 -> Rainy [] g = 3 -> Snowy [] g = 4 -> Sunny

\* C8: parse_weather_condition returns the category of the first group, in
\* the order Cloudy, Rainy, Snowy, Sunny, that has a keyword occurring in the
\* summary text, wherever and however long the keywords are; with no keyword
\* in the text it returns the text itself; it raises in neither case.
C8_FirstGroupWins ==
  (norm_pc = "done" /\ raw_summary.found) =>
    LET text == raw_summary.text
        hits == { g \in 1..4 : HasKeyword(g, text) }
    IN  /\ parsed_condition.error = "none"
        /\ \A g \in hits :
             (\A h \in hits : g <= h) => parsed_condition.value = Category(g)
        /\ hits = {} => parsed_condition.value = text

\* A text with a Rainy keyword ahead of a Cloudy keyword came back Cloudy.
C8_Witness ==
  /\ norm_pc = "done"
  /\ raw_summary = Found(<<"R","a","i","n","c","l","o","u","d">>)
  /\ parsed_condition = Returns(Cloudy)

\* A stored row holds the fields of a fetched record.
RowHolds(row, record) ==
  /\ row.date = record["Date"]
  /\ row.temperature = record["Temperature"]
  /\ row.condition = record["Weather condition"]
  /\ row.wind = record["Wind"]

RowsOf(table, date) == { i \in 1..Len(table) : table[i].date = date }

\* save_forecast is running or has ended, under store_forecast.
InStore == pc \in {"collect", "write", "stored", "crashed"}

\* C1: once store_forecast has processed a fetched record r, storage holds a
\* record for r's date and it has r's temperature, condition and wind,
\* whether the date was stored before (overwritten) or not (inserted).
C1_UpsertOverwrites ==
  pc = "stored" =>
    \A i \in 1..Len(forecast) :
      LET r == forecast[i].value
      IN  /\ RowsOf(db, r["Date"]) # {}
          /\ \A k \in RowsOf(db, r["Date"]) : RowHolds(db[k], r)

\* C2: storage never holds two records of one date.
C2_OneRecordPerDate ==
  \A i \in 1..Len(db), j \in 1..Len(db) : db[i].date = db[j].date => i = j

\* A range was stored of which one date was in storage already and another
\* was not.
C2_Witness ==
  /\ pc = "stored"
  /\ \E i \in 1..Len(forecast) : HasDate(db_before, forecast[i].key)
  /\ \E i \in 1..Len(forecast) : ~HasDate(db_before, forecast[i].key)

\* C3: after store_forecast upserted r, the query of get_forecast over
\* (r.date, r.date) yields the one-element sequence of r.
C3_RoundTrip ==
  pc = "stored" =>
    \A i \in 1..Len(forecast) :
      LET r == forecast[i].value
          q == select_between_ordered(db, r["Date"], r["Date"])
      IN  Len(q) = 1 /\ RowHolds(q[1], r)

\* store_forecast's loop (lines 187-204) from record i of the forecast on.
RECURSIVE StoreAll(_, _, _)
StoreAll(table, records, i) ==
  IF i > Len(records) THEN table
  ELSE StoreAll(upsert(table, records[i].value), records, i + 1)

\* C4: upserting the same records a second time changes nothing, and storage
\* holds exactly one record for each of their dates, with their fields.
C4_Idempotent ==
  pc = "stored" =>
    LET again == StoreAll(db, forecast, 1)
    IN  /\ again = db
        /\ \A i \in 1..Len(forecast) :
             LET r == forecast[i].value
             IN  /\ Cardinality(RowsOf(again, r["Date"])) = 1
                 /\ \A k \in RowsOf(again, r["Date"]) : RowHolds(again[k], r)

\* C5: get_forecast returns the stored records dated within [start, end],
\* each once and no other, in ascending date order; with start > end it
\* returns the empty sequence.
C5_QueryRange ==
  pc = "got" =>
    LET sel == selected_forecast
        inRange == { i \in 1..Len(db) :
                       start_date <= db[i].date /\ db[i].date <= end_date }
    IN  /\ \A n \in 1..Len(sel) : \E i \in inRange : sel[n] = db[i]
        /\ \A i \in inRange : Cardinality({ n \in 1..Len(sel) : sel[n] = db[i] }) = 1
        /\ \A m \in 1..Len(sel), n \in 1..Len(sel) :
             m < n => sel[m].date <= sel[n].date
        /\ start_date > end_date => sel = <<>>

\* A query over a table that is not in date order returned several rows and
\* left one out.
C5_Witness ==
  /\ pc = "got"
  /\ Len(selected_forecast) >= 2
  /\ Len(selected_forecast) < Len(db)
  /\ \E i \in 1..Len(db), j \in 1..Len(db) : i < j /\ db[i].date > db[j].date

DaysFrom(start, n) == [i \in 1..n |-> start + i - 1]

\* C7: with start_date <= end_date the fetches are made one per day in
\* ascending order from start_date on, and when every day succeeded
\* save_forecast returns a mapping after exactly the fetches of start_date to
\* end_date, keyed by exactly those dates (one fetch and one entry when the
\* two dates are equal).
C7_OneFetchPerDay ==
  (InStore /\ start_date <= end_date) =>
    /\ [i \in 1..Len(fetches) |-> fetches[i].date]
         = DaysFrom(start_date, Len(fetches))
    /\ Len(fetches) <= end_date - start_date + 1
    /\ outcome = "returned" =>
         /\ Len(fetches) = end_date - start_date + 1
         /\ [i \in 1..Len(forecast) |-> forecast[i].key]
              = DaysFrom(start_date, end_date - start_date + 1)
         /\ \A i \in 1..Len(forecast) :
              forecast[i].value["Date"] = forecast[i].key

\* A range of three days was fetched and returned.
C7_Witness ==
  /\ pc = "write"
  /\ outcome = "returned"
  /\ end_date = start_date + 2
  /\ Len(forecast) = 3

\* The fetch of a day failed: the request raised, or the page lacks a region.
Failed(response) ==
  \/ response.raised
  \/ ~response.soup.temperature.found
  \/ ~response.soup.summary.found
  \/ ~response.soup.wind.found

\* C9: when the fetch or the extraction of a day fails, save_forecast raises
\* at that day: it is the last day fetched, and store_forecast receives no
\* mapping (no entry of an earlier day, no partial or defaulted entry).
C9_FailFast ==
  \A i \in 1..Len(fetches) :
    Failed(fetches[i].response) =>
      /\ i = Len(fetches)
      /\ pc = "crashed"
      /\ outcome \notin {"none", "returned"}
      /\ forecast = <<>>

\* A day failed after an earlier day had succeeded and with later days of the
\* range not yet fetched.
C9_Witness ==
  /\ pc = "crashed"
  /\ Len(fetches) >= 2
  /\ fetches[Len(fetches)].date < end_date
  /\ Failed(fetches[Len(fetches)].response)

\* C10: storage differs from what it was when store_forecast was called only
\* after save_forecast has returned, with every day of the range fetched; a
\* call that fails while fetching leaves storage as it was.
C10_FetchBeforeWrite ==
  InStore =>
    /\ db # db_before =>
         /\ pc \in {"write", "stored"}
         /\ outcome = "returned"
         /\ current_date > end_date
    /\ pc \in {"collect", "crashed"} => db = db_before

\* A call failed on a later day: the earlier day, fetched in full, is not in
\* storage.
C10_Witness ==
  /\ pc = "crashed"
  /\ Len(fetches) >= 2
  /\ ~Failed(fetches[1].response)
  /\ ~HasDate(db, fetches[1].date)
  /\ db = db_before

====
